---- MODULE Spec2Model ----
(***************************************************************************)
(* Teaclave management service: the handlers of                            *)
(* services/management/enclave/src/service.rs over the Storage service     *)
(* (key/value Put and Get, Enqueue on the staged-task queue).  Request     *)
(* handlers run concurrently.  A step of a handler is one Storage call on  *)
(* a task record or on the queue, with the computation that follows it up  *)
(* to the next such call.  The Gets of file and function records are part  *)
(* of the step of the task Get before them: no handler overwrites those    *)
(* keys, so these Gets commute with every step of every other handler.     *)
(* The construction of the service (conn) and the locking of the shared    *)
(* Storage client by the handler threads (lock, th) are specifications of  *)
(* their own over the same state.                                          *)
(***************************************************************************)
EXTENDS Naturals, Sequences, FiniteSets, TLC

VARIABLES db, queue, hs, resp, conn, lock, th

vars == <<db, queue, hs, resp, conn, lock, th>>

\* What a step of a request handler leaves alone: the construction of the
\* service, and the view of the handlers as threads that lock the Storage client.
elsewhere == <<conn, lock, th>>

(***************************************************************************)
(* Bounds of the model.                                                    *)
(***************************************************************************)
MaxQueue == 2

Users == {"alice", "bob", "carol"}
Handlers == {1, 2}

TaskUuids == {1, 2}

(***************************************************************************)
(* Entity kinds and keys.  An ExternalID is a prefix and a uuid; the       *)
(* Storage key of an entity is its ExternalID.                             *)
(***************************************************************************)
InputPrefix == "input-file"
OutputPrefix == "output-file"
FunctionPrefix == "function"
TaskPrefix == "task"

ExternalID(p, u) == [prefix |-> p, uuid |-> u]

TaskKey(u) == ExternalID(TaskPrefix, u)

Keys ==
    {ExternalID(InputPrefix, u) : u \in 1..5}
        \cup {ExternalID(OutputPrefix, u) : u \in 1..5}
        \cup {ExternalID(FunctionPrefix, u) : u \in 1..3}
        \cup {TaskKey(u) : u \in TaskUuids}

NoValue == [kind |-> "absent"]

(***************************************************************************)
(* ServiceError and the Ok response.                                       *)
(***************************************************************************)
Ok == "Ok"
InvalidRequest == "InvalidRequest"
DataError == "DataError"
StorageError == "StorageError"
PermissionDenied == "PermissionDenied"
BadTask == "BadTask"
RpcError == "RpcError"

(***************************************************************************)
(* TaskStatus and its order.                                               *)
(***************************************************************************)
Created == "Created"
DataAssigned == "DataAssigned"
Approved == "Approved"
Staged == "Staged"
Running == "Running"
Finished == "Finished"

i32_from_task_status(s) ==
    CASE s = Created -> 0
      [] s = DataAssigned -> 1
      [] s = Approved -> 2
      [] s = Staged -> 3
      [] s = Running -> 4
      [] s = Finished -> 5

(***************************************************************************)
(* The files and functions registered in Storage before the tasks are     *)
(* created (register_input_file, register_output_file, register_function). *)
(* An output file has a cmac once it is finalized, like the fusion outputs *)
(* of add_mock_data.  The task handlers never write these keys.            *)
(***************************************************************************)
TeaclaveInputFile(url, cmac, crypto_info, owner) ==
    [kind |-> "input", url |-> url, crypto_info |-> crypto_info, owner |-> owner,
     cmac |-> cmac]

TeaclaveOutputFile(url, crypto_info, owner) ==
    [kind |-> "output", url |-> url, crypto_info |-> crypto_info, owner |-> owner,
     cmac |-> FALSE]

InputFile(owner) == TeaclaveInputFile("s3://input", TRUE, "aes-gcm-128", owner)

OutputFile(owner, cmac) ==
    [TeaclaveOutputFile("fusion:///TEACLAVE_FUSION_BASE", "default", owner)
        EXCEPT !.cmac = cmac]

Function(owner, public, arguments, inputs, outputs) ==
    [kind |-> "function", owner |-> owner, public |-> public, payload |-> owner,
     arguments |-> arguments, inputs |-> inputs, outputs |-> outputs]

MockData ==
    [k \in Keys |->
        CASE k = ExternalID(InputPrefix, 1) -> InputFile({"alice", "bob"})
          [] k = ExternalID(InputPrefix, 2) -> InputFile({"alice"})
          [] k = ExternalID(InputPrefix, 4) -> InputFile({"alice", "bob"})
          [] k = ExternalID(OutputPrefix, 1) -> OutputFile({"alice", "carol"}, FALSE)
          [] k = ExternalID(OutputPrefix, 2) -> OutputFile({"alice"}, FALSE)
          [] k = ExternalID(OutputPrefix, 3) -> OutputFile({"alice", "carol"}, TRUE)
          [] k = ExternalID(FunctionPrefix, 1) ->
                Function("alice", TRUE, {"arg"}, {"in"}, {"out"})
          [] k = ExternalID(FunctionPrefix, 2) ->
                Function("bob", FALSE, {}, {}, {})
          [] OTHER -> NoValue]

(***************************************************************************)
(* Task (teaclave_types): construction, data assignment, approval and      *)
(* staging.  A method returns [ok, task]; on failure the task is the       *)
(* receiver unchanged.                                                     *)
(***************************************************************************)
EmptyMap == [n \in {} |-> NoValue]

Owners(ownership) == UNION {ownership[n] : n \in DOMAIN ownership}

Task_new_ok(function_arguments, inputs_ownership, outputs_ownership, function) ==
    /\ function_arguments = function.arguments
    /\ DOMAIN inputs_ownership = function.inputs
    /\ DOMAIN outputs_ownership = function.outputs

Participants_owners_only(requester, inputs_ownership, outputs_ownership) ==
    Owners(inputs_ownership) \cup Owners(outputs_ownership)

Participants(requester, inputs_ownership, outputs_ownership) ==
    {requester} \cup Owners(inputs_ownership) \cup Owners(outputs_ownership)

Task_new(requester, function_id, function_arguments, ins, outs, function) ==
    [kind |-> "task",
     creator |-> requester,
     function_id |-> function_id,
     function_arguments |-> function_arguments,
     inputs_ownership |-> ins,
     outputs_ownership |-> outs,
     assigned_inputs |-> EmptyMap,
     assigned_outputs |-> EmptyMap,
     participants |-> Participants(requester, ins, outs),
     approved_users |-> {},
     status |-> Created]

fully_assigned(t) ==
    /\ DOMAIN t.assigned_inputs = DOMAIN t.inputs_ownership
    /\ DOMAIN t.assigned_outputs = DOMAIN t.outputs_ownership

fully_approved(t) == (t.participants \ {t.creator}) \subseteq t.approved_users

update_status_one_step(t) ==
    IF t.status = Created /\ fully_assigned(t) THEN [t EXCEPT !.status = DataAssigned]
    ELSE IF t.status = DataAssigned /\ fully_approved(t) THEN [t EXCEPT !.status = Approved]
    ELSE t

update_status_no_approval(t) ==
    IF t.status = Created /\ fully_assigned(t) THEN [t EXCEPT !.status = DataAssigned]
    ELSE t

update_status(t) ==
    LET a == IF t.status = Created /\ fully_assigned(t)
             THEN [t EXCEPT !.status = DataAssigned] ELSE t
    IN  IF a.status = DataAssigned /\ fully_approved(a)
        THEN [a EXCEPT !.status = Approved] ELSE a

Assign(map, name, id) ==
    [n \in DOMAIN map \cup {name} |-> IF n = name THEN id ELSE map[n]]

assign_input_ok_created_only(t, requester, name, file) ==
    /\ t.status = Created
    /\ name \in DOMAIN t.inputs_ownership
    /\ file.owner = t.inputs_ownership[name]
    /\ requester \in file.owner

assign_input_ok(t, requester, name, file) ==
    /\ t.status \in {Created, DataAssigned}
    /\ name \in DOMAIN t.inputs_ownership
    /\ file.owner = t.inputs_ownership[name]
    /\ requester \in file.owner

assign_input_resetting(t, requester, name, id, file) ==
    IF assign_input_ok(t, requester, name, file)
    THEN [ok |-> TRUE,
          task |-> update_status(
                     [t EXCEPT !.assigned_inputs = Assign(@, name, id),
                               !.approved_users = {}])]
    ELSE [ok |-> FALSE, task |-> t]

assign_input(t, requester, name, id, file) ==
    IF assign_input_ok(t, requester, name, file)
    THEN [ok |-> TRUE,
          task |-> update_status(
                     [t EXCEPT !.assigned_inputs = Assign(@, name, id)])]
    ELSE [ok |-> FALSE, task |-> t]

assign_output_ok_finalized(t, requester, name, file) ==
    /\ t.status \in {Created, DataAssigned}
    /\ name \in DOMAIN t.outputs_ownership
    /\ file.owner = t.outputs_ownership[name]
    /\ requester \in file.owner

assign_output_ok(t, requester, name, file) ==
    /\ t.status \in {Created, DataAssigned}
    /\ name \in DOMAIN t.outputs_ownership
    /\ file.owner = t.outputs_ownership[name]
    /\ requester \in file.owner
    /\ ~file.cmac

assign_output(t, requester, name, id, file) ==
    IF assign_output_ok(t, requester, name, file)
    THEN [ok |-> TRUE,
          task |-> update_status(
                     [t EXCEPT !.assigned_outputs = Assign(@, name, id)])]
    ELSE [ok |-> FALSE, task |-> t]

approve_ok_once(t, requester) ==
    /\ t.status = DataAssigned
    /\ requester \in t.participants \ ({t.creator} \cup t.approved_users)

approve_ok_any_participant(t, requester) ==
    /\ t.status = DataAssigned
    /\ requester \in t.participants

approve_ok(t, requester) ==
    /\ t.status = DataAssigned
    /\ requester \in t.participants \ {t.creator}

approve(t, requester) ==
    IF approve_ok(t, requester)
    THEN [ok |-> TRUE,
          task |-> update_status(
                     [t EXCEPT !.approved_users = @ \cup {requester}])]
    ELSE [ok |-> FALSE, task |-> t]

StagedTask_without_outputs(task_id, t, function) ==
    [task_id |-> task_id,
     function_payload |-> function.payload,
     function_arguments |-> t.function_arguments,
     input_data |-> t.assigned_inputs,
     output_data |-> EmptyMap]

StagedTask(task_id, t, function) ==
    [task_id |-> task_id,
     function_payload |-> function.payload,
     function_arguments |-> t.function_arguments,
     input_data |-> t.assigned_inputs,
     output_data |-> t.assigned_outputs]

stage_for_running(t) == [t EXCEPT !.status = Staged]

(***************************************************************************)
(* Storage access of the service.  read_from_db checks the key's prefix    *)
(* against the expected kind before it issues the Get; the Get fails when  *)
(* the RPC fails or the key is absent.  rpc_ok is the outcome of the RPC.  *)
(***************************************************************************)
(***************************************************************************)
(* Storable (teaclave_types): the key and the bytes of an entity.  A key   *)
(* is the characters of the kind's prefix, a dash and the uuid;            *)
(* match_prefix is starts_with on the prefix of the kind.  The bytes of an *)
(* entity are its fields by name: the kind of the entity is the type of    *)
(* the reader, it is not written in the bytes.  from_slice of a kind fails *)
(* unless the bytes hold exactly the fields of that kind.                  *)
(***************************************************************************)
Prefixes == {InputPrefix, OutputPrefix, FunctionPrefix, TaskPrefix}

key_prefix(prefix) ==
    CASE prefix = InputPrefix -> <<"i", "n", "p", "u", "t", "-", "f", "i", "l", "e">>
      [] prefix = OutputPrefix -> <<"o", "u", "t", "p", "u", "t", "-", "f", "i", "l", "e">>
      [] prefix = FunctionPrefix -> <<"f", "u", "n", "c", "t", "i", "o", "n">>
      [] prefix = TaskPrefix -> <<"t", "a", "s", "k">>

kind_of(prefix) ==
    CASE prefix = InputPrefix -> "input"
      [] prefix = OutputPrefix -> "output"
      [] prefix = FunctionPrefix -> "function"
      [] prefix = TaskPrefix -> "task"

prefix_of(item) ==
    CASE item.kind = "input" -> InputPrefix
      [] item.kind = "output" -> OutputPrefix
      [] item.kind = "function" -> FunctionPrefix
      [] item.kind = "task" -> TaskPrefix

starts_with(s, p) == Len(p) <= Len(s) /\ SubSeq(s, 1, Len(p)) = p

key_string(key) == key_prefix(key.prefix) \o <<"-", ToString(key.uuid)>>

match_prefix_string(prefix, s) == starts_with(s, key_prefix(prefix))

to_vec(item) == [f \in DOMAIN item \ {"kind"} |-> item[f]]

FileFields == {"url", "crypto_info", "owner", "cmac"}

FunctionFields == {"owner", "public", "payload", "arguments", "inputs", "outputs"}

TaskFields ==
    {"creator", "function_id", "function_arguments", "inputs_ownership",
     "outputs_ownership", "assigned_inputs", "assigned_outputs", "participants",
     "approved_users", "status"}

from_slice(prefix, v) ==
    CASE prefix \in {InputPrefix, OutputPrefix} /\ DOMAIN v = FileFields ->
            [kind |-> kind_of(prefix), url |-> v["url"], crypto_info |-> v["crypto_info"],
             owner |-> v["owner"], cmac |-> v["cmac"]]
      [] prefix = FunctionPrefix /\ DOMAIN v = FunctionFields ->
            [kind |-> "function", owner |-> v["owner"], public |-> v["public"],
             payload |-> v["payload"], arguments |-> v["arguments"],
             inputs |-> v["inputs"], outputs |-> v["outputs"]]
      [] prefix = TaskPrefix /\ DOMAIN v = TaskFields ->
            [kind |-> "task", creator |-> v["creator"], function_id |-> v["function_id"],
             function_arguments |-> v["function_arguments"],
             inputs_ownership |-> v["inputs_ownership"],
             outputs_ownership |-> v["outputs_ownership"],
             assigned_inputs |-> v["assigned_inputs"],
             assigned_outputs |-> v["assigned_outputs"],
             participants |-> v["participants"], approved_users |-> v["approved_users"],
             status |-> v["status"]]
      [] OTHER -> NoValue

match_prefix_of_files(prefix, key) ==
    \/ starts_with(key_prefix(key.prefix), key_prefix(prefix))
    \/ {prefix, key.prefix} \subseteq {InputPrefix, OutputPrefix}

match_prefix(prefix, key) == starts_with(key_prefix(key.prefix), key_prefix(prefix))

read_from_db_any_file(prefix, key, rpc_ok) ==
    IF ~match_prefix(prefix, key) /\ prefix \notin {InputPrefix, OutputPrefix}
    THEN [ok |-> FALSE, value |-> NoValue, gets |-> 0]
    ELSE IF ~rpc_ok \/ db[key] = NoValue THEN [ok |-> FALSE, value |-> NoValue, gets |-> 1]
    ELSE [ok |-> TRUE, value |-> db[key], gets |-> 1]

read_from_db(prefix, key, rpc_ok) ==
    IF ~match_prefix(prefix, key) THEN [ok |-> FALSE, value |-> NoValue, gets |-> 0]
    ELSE IF ~rpc_ok \/ db[key] = NoValue THEN [ok |-> FALSE, value |-> NoValue, gets |-> 1]
    ELSE LET item == from_slice(prefix, to_vec(db[key])) IN
         IF item = NoValue THEN [ok |-> FALSE, value |-> NoValue, gets |-> 1]
         ELSE [ok |-> TRUE, value |-> item, gets |-> 1]

\* item.key() is the prefix of the item's kind with the item's uuid; db[k] is
\* the item whose bytes to_vec(item) Storage holds under k.
write_to_db(key, item) == [db EXCEPT ![ExternalID(prefix_of(item), key.uuid)] = item]

enqueue_to_db_front(item) == <<item>> \o queue

enqueue_to_db(item) == Append(queue, item)

(***************************************************************************)
(* Handlers.  hs[h] is the handler's position and locals.  resp is the     *)
(* response a handler is returning to its caller: the endpoint, the        *)
(* caller, the result and, for assign_data, the number of entries the      *)
(* handler had accepted.  Returning touches no shared state; it is         *)
(* delivered before the service takes its next step.  A request is served  *)
(* by the first idle handler.                                              *)
(***************************************************************************)
Idle == [op |-> "idle"]

NoResponse == [op |-> "none"]

Response(op, user, result, accepted) ==
    [op |-> op, user |-> user, result |-> result, accepted |-> accepted]

Accepts(h) ==
    /\ resp = NoResponse
    /\ hs[h] = Idle
    /\ \A g \in Handlers : hs[g] = Idle => h <= g

At(h, op, pc) ==
    /\ resp = NoResponse
    /\ hs[h].op = op
    /\ hs[h].pc = pc

Deliver ==
    /\ resp # NoResponse
    /\ resp' = NoResponse
    /\ UNCHANGED <<db, queue, hs>>
    /\ UNCHANGED elsewhere

Return(h, r) ==
    /\ hs' = [hs EXCEPT ![h] = Idle]
    /\ resp' = r
    /\ UNCHANGED elsewhere

Continue(h, s) ==
    /\ hs' = [hs EXCEPT ![h] = s]
    /\ resp' = resp
    /\ UNCHANGED elsewhere

(***************************************************************************)
(* get_request_user_id: the caller is the value of the metadata key "id";  *)
(* a request without it is an InvalidRequest.  Metadata(users, c) are the  *)
(* metadata of the requests of the clients c sent by the given callers.    *)
(***************************************************************************)
NoUser == "nobody"

get_request_user_id_no_check(meta) ==
    [ok |-> TRUE, user_id |-> IF "id" \in DOMAIN meta THEN meta["id"] ELSE NoUser]

get_request_user_id(meta) ==
    IF "id" \in DOMAIN meta THEN [ok |-> TRUE, user_id |-> meta["id"]]
    ELSE [ok |-> FALSE, user_id |-> NoUser]

Metadata(users, c) == {"id" :> u : u \in users} \cup c.anonymous

(***************************************************************************)
(* The requests clients send.  rpc names the Get of the request that       *)
(* fails in Storage, if any ("task": the Get of the task, "file": the Get  *)
(* of a file or function).                                                 *)
(***************************************************************************)
CreateTaskRequest(user, function_uuid, arguments, ins, outs) ==
    [user |-> user, function_id |-> ExternalID(FunctionPrefix, function_uuid),
     function_arguments |-> arguments,
     inputs_ownership |-> ins, outputs_ownership |-> outs]

MultiParty ==
    CreateTaskRequest("alice", 1, {"arg"}, "in" :> {"alice", "bob"},
                      "out" :> {"alice", "carol"})

SingleParty ==
    CreateTaskRequest("alice", 1, {"arg"}, "in" :> {"alice"}, "out" :> {"alice"})

NoSlots == CreateTaskRequest("bob", 2, {}, EmptyMap, EmptyMap)

CreateTaskRequests ==
    {MultiParty, SingleParty, NoSlots, [NoSlots EXCEPT !.user = "carol"],
     CreateTaskRequest("alice", 1, {}, "in" :> {"alice"}, "out" :> {"alice"}),
     CreateTaskRequest("alice", 1, {"arg"}, EmptyMap, "out" :> {"alice"}),
     CreateTaskRequest("alice", 1, {"arg"}, "in" :> {"alice"}, "in" :> {"alice"}),
     [NoSlots EXCEPT !.function_id = ExternalID(InputPrefix, 1)]}

AssignDataRequest(task_id, ins, outs, rpc) ==
    [task_id |-> task_id, inputs |-> ins, outputs |-> outs, rpc |-> rpc]

In(prefix, u) == "in" :> ExternalID(prefix, u)

Out(prefix, u) == "out" :> ExternalID(prefix, u)

AssignDataEntries ==
    {<<EmptyMap, EmptyMap>>,
     <<In(InputPrefix, 1), EmptyMap>>,
     <<EmptyMap, Out(OutputPrefix, 1)>>,
     <<In(InputPrefix, 1), Out(OutputPrefix, 1)>>,
     <<In(InputPrefix, 2), EmptyMap>>,
     <<EmptyMap, Out(OutputPrefix, 2)>>,
     <<In(InputPrefix, 2), Out(OutputPrefix, 2)>>,
     <<In(InputPrefix, 1), Out(OutputPrefix, 3)>>,
     <<In(InputPrefix, 1), Out(OutputPrefix, 2)>>,
     <<In(InputPrefix, 3), EmptyMap>>,
     <<In(OutputPrefix, 1), EmptyMap>>,
     <<Out(InputPrefix, 1), EmptyMap>>,
     <<EmptyMap, Out(InputPrefix, 1)>>,
     <<EmptyMap, In(OutputPrefix, 1)>>}

AssignDataRequests(uuids) ==
    {AssignDataRequest(TaskKey(u), e[1], e[2], "ok") : u \in uuids, e \in AssignDataEntries}
        \cup {AssignDataRequest(TaskKey(1), In(InputPrefix, 1), Out(OutputPrefix, 1), rpc) :
                rpc \in {"task", "file"}}
        \cup {AssignDataRequest(ExternalID(FunctionPrefix, 1), In(InputPrefix, 1),
                                EmptyMap, "ok")}

TaskRequest(task_id, rpc) == [task_id |-> task_id, rpc |-> rpc]

TaskRequests(uuids) ==
    {TaskRequest(TaskKey(u), rpc) : u \in uuids, rpc \in {"ok", "task", "file"}}
        \cup {TaskRequest(ExternalID(FunctionPrefix, 1), "ok")}

(***************************************************************************)
(* What the clients of a specification send: the uuids tasks are created   *)
(* under, the callers and the requests.                                    *)
(***************************************************************************)
Clients ==
    [uuids |-> {1}, users |-> Users, anonymous |-> {}, creates |-> CreateTaskRequests,
     assigns |-> AssignDataRequests({1, 2}), tasks |-> TaskRequests({1, 2})]

TwoTasks ==
    [uuids |-> {1, 2}, users |-> Users, anonymous |-> {},
     creates |-> {MultiParty, SingleParty},
     assigns |-> {AssignDataRequest(TaskKey(u), e[1], e[2], "ok") :
                     u \in {1, 2},
                     e \in {<<In(InputPrefix, 1), Out(OutputPrefix, 1)>>,
                            <<In(InputPrefix, 2), Out(OutputPrefix, 2)>>}},
     tasks |-> {TaskRequest(TaskKey(u), "ok") : u \in {1, 2}}]

(***************************************************************************)
(* create_task: Get the function, Task::new under a fresh uuid; then Put.  *)
(***************************************************************************)
FreshUuids(uuids) ==
    {u \in uuids :
        /\ db[TaskKey(u)] = NoValue
        /\ \A h \in Handlers :
              hs[h].op = "create_task" => hs[h].task_id # TaskKey(u)}

new_v4(uuids) ==
    CHOOSE u \in FreshUuids(uuids) : \A v \in FreshUuids(uuids) : u <= v

create_task_denied(req, rpc_ok) ==
    LET f == read_from_db(FunctionPrefix, req.function_id, rpc_ok) IN
    IF ~f.ok THEN [result |-> PermissionDenied, task |-> NoValue]
    ELSE IF ~Task_new_ok(req.function_arguments, req.inputs_ownership,
                         req.outputs_ownership, f.value)
    THEN [result |-> PermissionDenied, task |-> NoValue]
    ELSE [result |-> Ok,
          task |-> Task_new(req.user, req.function_id, req.function_arguments,
                            req.inputs_ownership, req.outputs_ownership, f.value)]

create_task(req, rpc_ok) ==
    LET f == read_from_db(FunctionPrefix, req.function_id, rpc_ok) IN
    IF ~f.ok THEN [result |-> PermissionDenied, task |-> NoValue]
    ELSE IF ~Task_new_ok(req.function_arguments, req.inputs_ownership,
                         req.outputs_ownership, f.value)
    THEN [result |-> BadTask, task |-> NoValue]
    ELSE [result |-> Ok,
          task |-> Task_new(req.user, req.function_id, req.function_arguments,
                            req.inputs_ownership, req.outputs_ownership, f.value)]

CreateTaskRead(h, c) ==
    /\ Accepts(h)
    /\ FreshUuids(c.uuids) # {}
    /\ \E req \in c.creates, rpc_ok \in BOOLEAN :
        \E meta \in Metadata({req.user}, c) :
        LET id == get_request_user_id(meta)
            r == create_task(req, rpc_ok)
        IN
        IF ~id.ok
        THEN Return(h, Response("create_task", id.user_id, InvalidRequest, 0))
        ELSE IF r.result # Ok
        THEN Return(h, Response("create_task", req.user, r.result, 0))
        ELSE Continue(h, [op |-> "create_task", pc |-> "write", user |-> req.user,
                          task_id |-> TaskKey(new_v4(c.uuids)), task |-> r.task,
                          accepted |-> 0, wrote |-> FALSE])
    /\ UNCHANGED <<db, queue>>

(***************************************************************************)
(* The last step of every handler of a task: write_to_db(&task), whose     *)
(* failure is mapped to StorageError.                                      *)
(***************************************************************************)
WriteTask(h) ==
    \E rpc_ok \in BOOLEAN :
        IF rpc_ok
        THEN /\ db' = write_to_db(hs[h].task_id, hs[h].task)
             /\ Return(h, Response(hs[h].op, hs[h].user, Ok, hs[h].accepted))
        ELSE /\ db' = db
             /\ Return(h, Response(hs[h].op, hs[h].user, StorageError, hs[h].accepted))

CreateTaskWrite(h) ==
    /\ At(h, "create_task", "write")
    /\ WriteTask(h)
    /\ UNCHANGED queue

(***************************************************************************)
(* assign_data: Get the task, check the caller, assign every input entry   *)
(* and then every output entry to the local task (each after a Get of the  *)
(* file), stopping at the first entry that is rejected; then Put.          *)
(***************************************************************************)
IsParticipant(task, user) == user \in task.participants

Rest(map, name) == [n \in DOMAIN map \ {name} |-> map[n]]

RECURSIVE AssignInputs(_, _, _, _, _)
AssignInputs(t, user, inputs, rpc_ok, accepted) ==
    IF DOMAIN inputs = {} THEN [ok |-> TRUE, task |-> t, accepted |-> accepted]
    ELSE LET data_name == CHOOSE n \in DOMAIN inputs : TRUE
             data_id == inputs[data_name]
             file == read_from_db(InputPrefix, data_id, rpc_ok)
             r == assign_input(t, user, data_name, data_id, file.value)
         IN  IF ~file.ok THEN [ok |-> FALSE, task |-> t, accepted |-> accepted]
             ELSE IF ~r.ok THEN [ok |-> FALSE, task |-> t, accepted |-> accepted]
             ELSE AssignInputs(r.task, user, Rest(inputs, data_name), rpc_ok,
                               accepted + 1)

RECURSIVE AssignOutputs(_, _, _, _, _)
AssignOutputs(t, user, outputs, rpc_ok, accepted) ==
    IF DOMAIN outputs = {} THEN [ok |-> TRUE, task |-> t, accepted |-> accepted]
    ELSE LET data_name == CHOOSE n \in DOMAIN outputs : TRUE
             data_id == outputs[data_name]
             file == read_from_db(OutputPrefix, data_id, rpc_ok)
             r == assign_output(t, user, data_name, data_id, file.value)
         IN  IF ~file.ok THEN [ok |-> FALSE, task |-> t, accepted |-> accepted]
             ELSE IF ~r.ok THEN [ok |-> FALSE, task |-> t, accepted |-> accepted]
             ELSE AssignOutputs(r.task, user, Rest(outputs, data_name), rpc_ok,
                                accepted + 1)

assign_data_partial(t, user, inputs, outputs, rpc_ok) ==
    LET i == AssignInputs(t, user, inputs, rpc_ok, 0)
        o == AssignOutputs(i.task, user, outputs, rpc_ok, i.accepted)
    IN  IF ~IsParticipant(t, user) THEN [ok |-> FALSE, task |-> t, accepted |-> 0]
        ELSE IF ~i.ok THEN i
        ELSE [o EXCEPT !.ok = TRUE]

assign_data(t, user, inputs, outputs, rpc_ok) ==
    LET i == AssignInputs(t, user, inputs, rpc_ok, 0)
        o == AssignOutputs(i.task, user, outputs, rpc_ok, i.accepted)
    IN  IF ~IsParticipant(t, user) THEN [ok |-> FALSE, task |-> t, accepted |-> 0]
        ELSE IF ~i.ok THEN i
        ELSE o

AssignDataRead(h, c) ==
    /\ Accepts(h)
    /\ \E meta \in Metadata(c.users, c), req \in c.assigns :
        LET id == get_request_user_id(meta)
            user == id.user_id
            t == read_from_db(TaskPrefix, req.task_id, req.rpc # "task")
            r == assign_data(t.value, user, req.inputs, req.outputs, req.rpc # "file")
        IN  IF ~id.ok
            THEN Return(h, Response("assign_data", user, InvalidRequest, 0))
            ELSE IF ~t.ok
            THEN Return(h, Response("assign_data", user, PermissionDenied, 0))
            ELSE IF ~r.ok
            THEN Return(h, Response("assign_data", user, PermissionDenied, r.accepted))
            ELSE Continue(h, [op |-> "assign_data", pc |-> "write", user |-> user,
                              task_id |-> req.task_id, task |-> r.task,
                              inputs |-> req.inputs, outputs |-> req.outputs,
                              accepted |-> r.accepted, wrote |-> FALSE])
    /\ UNCHANGED <<db, queue>>

AssignDataWrite(h) ==
    /\ At(h, "assign_data", "write")
    /\ WriteTask(h)
    /\ UNCHANGED queue

(***************************************************************************)
(* approve_task: Get the task, Task::approve; then Put.                    *)
(***************************************************************************)
ApproveTaskRead(h, c) ==
    /\ Accepts(h)
    /\ \E meta \in Metadata(c.users, c), req \in c.tasks :
        LET id == get_request_user_id(meta)
            user == id.user_id
            t == read_from_db(TaskPrefix, req.task_id, req.rpc = "ok")
            r == approve(t.value, user)
            denied == Response("approve_task", user, PermissionDenied, 0)
        IN  IF ~id.ok
            THEN Return(h, Response("approve_task", user, InvalidRequest, 0))
            ELSE IF ~t.ok THEN Return(h, denied)
            ELSE IF ~r.ok THEN Return(h, denied)
            ELSE Continue(h, [op |-> "approve_task", pc |-> "write", user |-> user,
                              task_id |-> req.task_id, task |-> r.task,
                              accepted |-> 0, wrote |-> FALSE])
    /\ UNCHANGED <<db, queue>>

ApproveTaskWrite(h) ==
    /\ At(h, "approve_task", "write")
    /\ WriteTask(h)
    /\ UNCHANGED queue

(***************************************************************************)
(* invoke_task: Get the task, the early validation, Get the function,      *)
(* stage_for_running; then Enqueue the staged task; then Put the task.     *)
(***************************************************************************)
InvokeAllowed_any_status(task, user) == task.creator = user

InvokeAllowed(task, user) ==
    /\ task.creator = user
    /\ task.status = Approved

InvokeTaskRead(h, c) ==
    /\ Accepts(h)
    /\ \E meta \in Metadata(c.users, c), req \in c.tasks :
        LET id == get_request_user_id(meta)
            user == id.user_id
            t == read_from_db(TaskPrefix, req.task_id, req.rpc # "task")
            f == read_from_db(FunctionPrefix, t.value.function_id, req.rpc # "file")
            denied == Response("invoke_task", user, PermissionDenied, 0)
        IN  IF ~id.ok
            THEN Return(h, Response("invoke_task", user, InvalidRequest, 0))
            ELSE IF ~t.ok THEN Return(h, denied)
            ELSE IF ~InvokeAllowed(t.value, user) THEN Return(h, denied)
            ELSE IF ~f.ok THEN Return(h, denied)
            ELSE Continue(h, [op |-> "invoke_task", pc |-> "enqueue", user |-> user,
                              task_id |-> req.task_id,
                              task |-> stage_for_running(t.value),
                              staged_task |-> StagedTask(req.task_id, t.value, f.value),
                              accepted |-> 0, wrote |-> FALSE])
    /\ UNCHANGED <<db, queue>>

InvokeTaskEnqueue(h) ==
    /\ At(h, "invoke_task", "enqueue")
    /\ \E rpc_ok \in BOOLEAN :
          IF rpc_ok
          THEN /\ Len(queue) < MaxQueue
               /\ queue' = enqueue_to_db(hs[h].staged_task)
               /\ Continue(h, [op |-> "invoke_task", pc |-> "write",
                               user |-> hs[h].user, task_id |-> hs[h].task_id,
                               task |-> hs[h].task, accepted |-> 0, wrote |-> TRUE])
          ELSE /\ queue' = queue
               /\ Return(h, Response("invoke_task", hs[h].user, RpcError, 0))
    /\ UNCHANGED db

InvokeTaskWrite(h) ==
    /\ At(h, "invoke_task", "write")
    /\ WriteTask(h)
    /\ UNCHANGED queue

(***************************************************************************)
(* The endpoints of files and functions.  Each is one step: no handler     *)
(* overwrites a file or a function, so the Get of register_input_from_     *)
(* output commutes with the steps of the other handlers up to its Put.     *)
(* The response of these endpoints carries the id the request named or     *)
(* the id of the registered entity, and the value returned.                *)
(***************************************************************************)
Reply(op, user, result, id, value) ==
    [op |-> op, user |-> user, result |-> result, accepted |-> 0, id |-> id,
     value |-> value]

NoId == [prefix |-> "none", uuid |-> 0]

FreshKeys(prefix, c) == {k \in c.keys : k.prefix = prefix /\ db[k] = NoValue}

new_key_reused(prefix, c) ==
    CHOOSE k \in Keys : k.prefix = prefix /\ \A j \in Keys : j.prefix = prefix => k.uuid <= j.uuid

new_key(prefix, c) ==
    CHOOSE k \in FreshKeys(prefix, c) : \A j \in FreshKeys(prefix, c) : k.uuid <= j.uuid

register_input_file(user_id, req) ==
    TeaclaveInputFile(req.url, req.cmac, req.crypto_info, {user_id})

register_output_file(user_id, req) ==
    TeaclaveOutputFile(req.url, req.crypto_info, {user_id})

create_fusion_data(owners) ==
    TeaclaveOutputFile("fusion:///TEACLAVE_FUSION_BASE", "default", owners)

register_fusion_output_any_owners(user_id, owner_list) ==
    [result |-> Ok, file |-> create_fusion_data(owner_list)]

register_fusion_output(user_id, owner_list) ==
    IF ~(Cardinality(owner_list) > 1 /\ user_id \in owner_list)
    THEN [result |-> PermissionDenied, file |-> NoValue]
    ELSE [result |-> Ok, file |-> create_fusion_data(owner_list)]

from_output(output) ==
    IF ~output.cmac THEN [ok |-> FALSE, file |-> NoValue]
    ELSE [ok |-> TRUE,
          file |-> TeaclaveInputFile(output.url, output.cmac, output.crypto_info,
                                     output.owner)]

from_output_keys(data_id, c) ==
    ({ExternalID(InputPrefix, data_id.uuid)} \cap Keys)
        \cup (IF FreshKeys(InputPrefix, c) = {} THEN {} ELSE {new_key(InputPrefix, c)})

register_input_from_output_any_output(user_id, data_id, rpc_ok) ==
    LET output == read_from_db(OutputPrefix, data_id, rpc_ok)
        input == from_output([output.value EXCEPT !.cmac = TRUE])
    IN  IF ~output.ok THEN [result |-> PermissionDenied, file |-> NoValue]
        ELSE [result |-> Ok, file |-> input.file]

register_input_from_output(user_id, data_id, rpc_ok) ==
    LET output == read_from_db(OutputPrefix, data_id, rpc_ok)
        input == from_output(output.value)
    IN  IF ~output.ok THEN [result |-> PermissionDenied, file |-> NoValue]
        ELSE IF user_id \notin output.value.owner
        THEN [result |-> PermissionDenied, file |-> NoValue]
        ELSE IF ~input.ok THEN [result |-> PermissionDenied, file |-> NoValue]
        ELSE [result |-> Ok, file |-> input.file]

GetFileResponse(file) == [owner |-> file.owner, cmac |-> file.cmac]

get_output_file(user_id, data_id, rpc_ok) ==
    LET output_file == read_from_db(OutputPrefix, data_id, rpc_ok) IN
    IF ~output_file.ok THEN [result |-> PermissionDenied, value |-> NoValue]
    ELSE IF user_id \notin output_file.value.owner
    THEN [result |-> PermissionDenied, value |-> NoValue]
    ELSE [result |-> Ok, value |-> GetFileResponse(output_file.value)]

get_input_file_any_caller(user_id, data_id, rpc_ok) ==
    LET input_file == read_from_db(InputPrefix, data_id, rpc_ok) IN
    IF ~input_file.ok THEN [result |-> PermissionDenied, value |-> NoValue]
    ELSE [result |-> Ok, value |-> GetFileResponse(input_file.value)]

get_input_file(user_id, data_id, rpc_ok) ==
    LET input_file == read_from_db(InputPrefix, data_id, rpc_ok) IN
    IF ~input_file.ok THEN [result |-> PermissionDenied, value |-> NoValue]
    ELSE IF user_id \notin input_file.value.owner
    THEN [result |-> PermissionDenied, value |-> NoValue]
    ELSE [result |-> Ok, value |-> GetFileResponse(input_file.value)]

register_function(user_id, req) ==
    Function(user_id, req.public, req.arguments, req.inputs, req.outputs)

GetFunctionResponse(function) ==
    [owner |-> function.owner, payload |-> function.payload, public |-> function.public,
     arguments |-> function.arguments, inputs |-> function.inputs,
     outputs |-> function.outputs]

get_function_owner_only(user_id, function_id, rpc_ok) ==
    LET function == read_from_db(FunctionPrefix, function_id, rpc_ok) IN
    IF ~function.ok THEN [result |-> PermissionDenied, value |-> NoValue]
    ELSE IF ~(function.value.owner = user_id)
    THEN [result |-> PermissionDenied, value |-> NoValue]
    ELSE [result |-> Ok, value |-> GetFunctionResponse(function.value)]

get_function(user_id, function_id, rpc_ok) ==
    LET function == read_from_db(FunctionPrefix, function_id, rpc_ok) IN
    IF ~function.ok THEN [result |-> PermissionDenied, value |-> NoValue]
    ELSE IF ~(function.value.public \/ function.value.owner = user_id)
    THEN [result |-> PermissionDenied, value |-> NoValue]
    ELSE [result |-> Ok, value |-> GetFunctionResponse(function.value)]

GetTaskResponse(task_id, task) ==
    [task_id |-> task_id, creator |-> task.creator, function_id |-> task.function_id,
     function_arguments |-> task.function_arguments,
     inputs_ownership |-> task.inputs_ownership,
     outputs_ownership |-> task.outputs_ownership,
     participants |-> task.participants, approved_users |-> task.approved_users,
     assigned_inputs |-> task.assigned_inputs,
     assigned_outputs |-> task.assigned_outputs, status |-> task.status]

get_task_any_caller(user_id, task_id, rpc_ok) ==
    LET task == read_from_db(TaskPrefix, task_id, rpc_ok) IN
    IF ~task.ok THEN [result |-> PermissionDenied, value |-> NoValue]
    ELSE [result |-> Ok, value |-> GetTaskResponse(task_id, task.value)]

get_task(user_id, task_id, rpc_ok) ==
    LET task == read_from_db(TaskPrefix, task_id, rpc_ok) IN
    IF ~task.ok THEN [result |-> PermissionDenied, value |-> NoValue]
    ELSE IF user_id \notin task.value.participants
    THEN [result |-> PermissionDenied, value |-> NoValue]
    ELSE [result |-> Ok, value |-> GetTaskResponse(task_id, task.value)]

(***************************************************************************)
(* A registration: the caller's id, then the checks of the endpoint, then  *)
(* one Put of the new entity, whose failure is mapped to StorageError.     *)
(* The input file derived from an output file is stored under an id not    *)
(* in use or under the uuid of the output file: from_output decides.       *)
(***************************************************************************)
Register(h, op, meta, key, r, rpc_ok) ==
    LET id == get_request_user_id(meta) IN
    IF ~id.ok
    THEN /\ db' = db
         /\ Return(h, Reply(op, id.user_id, InvalidRequest, NoId, NoValue))
    ELSE IF r.result # Ok
    THEN /\ db' = db
         /\ Return(h, Reply(op, id.user_id, r.result, NoId, NoValue))
    ELSE IF ~rpc_ok
    THEN /\ db' = db
         /\ Return(h, Reply(op, id.user_id, StorageError, NoId, NoValue))
    ELSE /\ db' = write_to_db(key, r.file)
         /\ Return(h, Reply(op, id.user_id, Ok, key, r.file))

RegisterInputFile(h, c) ==
    /\ Accepts(h)
    /\ FreshKeys(InputPrefix, c) # {}
    /\ \E meta \in Metadata(c.users, c), req \in c.input_files, rpc_ok \in BOOLEAN :
        Register(h, "register_input_file", meta, new_key(InputPrefix, c),
                 [result |-> Ok,
                  file |-> register_input_file(get_request_user_id(meta).user_id, req)],
                 rpc_ok)
    /\ UNCHANGED queue

RegisterOutputFile(h, c) ==
    /\ Accepts(h)
    /\ FreshKeys(OutputPrefix, c) # {}
    /\ \E meta \in Metadata(c.users, c), req \in c.output_files, rpc_ok \in BOOLEAN :
        Register(h, "register_output_file", meta, new_key(OutputPrefix, c),
                 [result |-> Ok,
                  file |-> register_output_file(get_request_user_id(meta).user_id, req)],
                 rpc_ok)
    /\ UNCHANGED queue

RegisterFusionOutput(h, c) ==
    /\ Accepts(h)
    /\ FreshKeys(OutputPrefix, c) # {}
    /\ \E meta \in Metadata(c.users, c), owner_list \in c.owner_lists, rpc_ok \in BOOLEAN :
        Register(h, "register_fusion_output", meta, new_key(OutputPrefix, c),
                 register_fusion_output(get_request_user_id(meta).user_id, owner_list),
                 rpc_ok)
    /\ UNCHANGED queue

RegisterInputFromOutput(h, c) ==
    /\ Accepts(h)
    /\ \E meta \in Metadata(c.users, c), data_id \in c.data_ids :
        \E key \in from_output_keys(data_id, c), get_ok \in BOOLEAN, rpc_ok \in BOOLEAN :
            Register(h, "register_input_from_output", meta, key,
                     register_input_from_output(get_request_user_id(meta).user_id,
                                                data_id, get_ok),
                     rpc_ok)
    /\ UNCHANGED queue

RegisterFunction(h, c) ==
    /\ Accepts(h)
    /\ FreshKeys(FunctionPrefix, c) # {}
    /\ \E meta \in Metadata(c.users, c), req \in c.functions, rpc_ok \in BOOLEAN :
        Register(h, "register_function", meta, new_key(FunctionPrefix, c),
                 [result |-> Ok,
                  file |-> register_function(get_request_user_id(meta).user_id, req)],
                 rpc_ok)
    /\ UNCHANGED queue

(***************************************************************************)
(* A read: the caller's id, then the Get and the access check.             *)
(***************************************************************************)
Read(h, op, meta, id, r) ==
    /\ IF ~get_request_user_id(meta).ok
       THEN Return(h, Reply(op, NoUser, InvalidRequest, id, NoValue))
       ELSE Return(h, Reply(op, get_request_user_id(meta).user_id, r.result, id, r.value))
    /\ UNCHANGED <<db, queue>>

GetOutputFile(h, c) ==
    /\ Accepts(h)
    /\ \E meta \in Metadata(c.users, c), data_id \in c.data_ids, rpc_ok \in BOOLEAN :
        Read(h, "get_output_file", meta, data_id,
             get_output_file(get_request_user_id(meta).user_id, data_id, rpc_ok))

GetInputFile(h, c) ==
    /\ Accepts(h)
    /\ \E meta \in Metadata(c.users, c), data_id \in c.data_ids, rpc_ok \in BOOLEAN :
        Read(h, "get_input_file", meta, data_id,
             get_input_file(get_request_user_id(meta).user_id, data_id, rpc_ok))

GetFunction(h, c) ==
    /\ Accepts(h)
    /\ \E meta \in Metadata(c.users, c), function_id \in c.data_ids, rpc_ok \in BOOLEAN :
        Read(h, "get_function", meta, function_id,
             get_function(get_request_user_id(meta).user_id, function_id, rpc_ok))

GetTask(h, c) ==
    /\ Accepts(h)
    /\ \E meta \in Metadata(c.users, c), task_id \in c.data_ids, rpc_ok \in BOOLEAN :
        Read(h, "get_task", meta, task_id,
             get_task(get_request_user_id(meta).user_id, task_id, rpc_ok))

(***************************************************************************)
(* TeaclaveManagementService::new: connect to the Storage service in a     *)
(* loop.  conn.pc is where the constructor is, conn.i the counter of the   *)
(* loop, conn.attempts the number of calls of connect so far, and          *)
(* conn.connected whether one of them succeeded.  A connect that succeeds  *)
(* leaves the loop, and new returns the service, or the error of           *)
(* TeaclaveStorageClient::new; a connect that fails with i below           *)
(* MaxRetries increments i and sleeps before the next one, and with i at   *)
(* MaxRetries new returns the error.  start_service serves requests with   *)
(* the service new returned.                                               *)
(***************************************************************************)
MaxRetries == 10

Constructing == [pc |-> "connect", i |-> 0, attempts |-> 0, connected |-> FALSE]

Serving == [pc |-> "serving", i |-> 0, attempts |-> 1, connected |-> TRUE]

may_retry_once_more(i) == i < MaxRetries + 1

may_retry(i) == i < MaxRetries

Connect ==
    /\ conn.pc = "connect"
    /\ \E connect_ok \in BOOLEAN, client_ok \in BOOLEAN :
          conn' = IF connect_ok
                  THEN [conn EXCEPT !.pc = IF client_ok THEN "serving" ELSE "failed",
                                    !.attempts = @ + 1, !.connected = TRUE]
                  ELSE IF may_retry(conn.i)
                  THEN [conn EXCEPT !.pc = "sleep", !.i = @ + 1, !.attempts = @ + 1]
                  ELSE [conn EXCEPT !.pc = "failed", !.attempts = @ + 1]
    /\ UNCHANGED <<db, queue, hs, resp, lock, th>>

Sleep ==
    /\ conn.pc = "sleep"
    /\ conn' = [conn EXCEPT !.pc = "connect"]
    /\ UNCHANGED <<db, queue, hs, resp, lock, th>>

(***************************************************************************)
(* The shared Storage client, storage_client: Arc<Mutex<..>>.  Each of     *)
(* read_from_db, write_to_db and enqueue_to_db is one statement that locks *)
(* the mutex, makes one RPC on the guard and drops the guard at its end.   *)
(* A handler is a thread that makes the Storage calls of its endpoint in   *)
(* order and returns early when one fails.  lock is the set of threads     *)
(* that hold a guard; th[t] is the calls thread t has still to make and    *)
(* where it is in the first of them.                                       *)
(***************************************************************************)
MaxThreads == 3

Threads == 1..MaxThreads

Programs ==
    {<<"Put">>, <<"Get">>, <<"Get", "Put">>, <<"Get", "Get", "Get", "Put">>,
     <<"Get", "Get", "Enqueue", "Put">>}

Resting == [pc |-> "idle", rpcs |-> <<>>]

mutex_free_or_not(t) == TRUE

mutex_free(t) == lock = {}

drop_guard_never(t) == lock

drop_guard(t) == lock \ {t}

Start(t) ==
    /\ th[t].pc = "idle"
    /\ \E program \in Programs : th' = [th EXCEPT ![t] = [pc |-> "waiting", rpcs |-> program]]
    /\ UNCHANGED <<db, queue, hs, resp, conn, lock>>

Lock(t) ==
    /\ th[t].pc = "waiting"
    /\ mutex_free(t)
    /\ lock' = lock \cup {t}
    /\ th' = [th EXCEPT ![t].pc = "locked"]
    /\ UNCHANGED <<db, queue, hs, resp, conn>>

Call(t) ==
    /\ th[t].pc = "locked"
    /\ th' = [th EXCEPT ![t].pc = "rpc"]
    /\ UNCHANGED <<db, queue, hs, resp, conn, lock>>

Receive(t) ==
    /\ th[t].pc = "rpc"
    /\ lock' = drop_guard(t)
    /\ \E rpc_ok \in BOOLEAN :
          th' = [th EXCEPT ![t] = IF rpc_ok /\ Len(th[t].rpcs) > 1
                                  THEN [pc |-> "waiting", rpcs |-> Tail(th[t].rpcs)]
                                  ELSE Resting]
    /\ UNCHANGED <<db, queue, hs, resp, conn>>

(***************************************************************************)
(* The service.                                                            *)
(***************************************************************************)
Init ==
    /\ db = MockData
    /\ queue = <<>>
    /\ hs = [h \in Handlers |-> Idle]
    /\ resp = NoResponse
    /\ conn = Serving
    /\ lock = {}
    /\ th = [t \in Threads |-> Resting]

CreateTask == \E h \in Handlers : CreateTaskRead(h, Clients) \/ CreateTaskWrite(h)

AssignData == \E h \in Handlers : AssignDataRead(h, Clients) \/ AssignDataWrite(h)

ApproveTask == \E h \in Handlers : ApproveTaskRead(h, Clients) \/ ApproveTaskWrite(h)

InvokeTask ==
    \E h \in Handlers :
        InvokeTaskRead(h, Clients) \/ InvokeTaskEnqueue(h) \/ InvokeTaskWrite(h)

Next == CreateTask \/ AssignData \/ ApproveTask \/ InvokeTask \/ Deliver

Spec == Init /\ [][Next]_vars

(***************************************************************************)
(* The service with two tasks, whose clients send well-formed requests.    *)
(***************************************************************************)
CreateTaskTwo == \E h \in Handlers : CreateTaskRead(h, TwoTasks) \/ CreateTaskWrite(h)

AssignDataTwo == \E h \in Handlers : AssignDataRead(h, TwoTasks) \/ AssignDataWrite(h)

ApproveTaskTwo == \E h \in Handlers : ApproveTaskRead(h, TwoTasks) \/ ApproveTaskWrite(h)

InvokeTaskTwo ==
    \E h \in Handlers :
        InvokeTaskRead(h, TwoTasks) \/ InvokeTaskEnqueue(h) \/ InvokeTaskWrite(h)

NextTwo == CreateTaskTwo \/ AssignDataTwo \/ ApproveTaskTwo \/ InvokeTaskTwo \/ Deliver

SpecTwo == Init /\ [][NextTwo]_vars

(***************************************************************************)
(* The service processing one request at a time: only the first handler    *)
(* serves.  Its clients also replace an assigned input by a second file     *)
(* of the same owners.                                                     *)
(***************************************************************************)
Sequential == CHOOSE h \in Handlers : \A g \in Handlers : h <= g

OneAtATime ==
    [Clients EXCEPT
        !.assigns = @ \cup {AssignDataRequest(TaskKey(1), In(InputPrefix, 4), EmptyMap, "ok")}]

CreateTaskSeq == CreateTaskRead(Sequential, OneAtATime) \/ CreateTaskWrite(Sequential)

AssignDataSeq == AssignDataRead(Sequential, OneAtATime) \/ AssignDataWrite(Sequential)

ApproveTaskSeq == ApproveTaskRead(Sequential, OneAtATime) \/ ApproveTaskWrite(Sequential)

InvokeTaskSeq ==
    \/ InvokeTaskRead(Sequential, OneAtATime)
    \/ InvokeTaskEnqueue(Sequential)
    \/ InvokeTaskWrite(Sequential)

NextSeq == CreateTaskSeq \/ AssignDataSeq \/ ApproveTaskSeq \/ InvokeTaskSeq \/ Deliver

SpecSeq == Init /\ [][NextSeq]_vars

(***************************************************************************)
(* The whole service, every endpoint, processing one request at a time.    *)
(* Its clients register files and functions, read entities of every kind   *)
(* by ids of every kind, stored or not, run a task of two participants and *)
(* also send requests without the metadata key "id".                       *)
(***************************************************************************)
EmptyMetadata == EmptyMap

TwoParty ==
    CreateTaskRequest("alice", 1, {"arg"}, "in" :> {"alice", "bob"}, "out" :> {"alice"})

EveryEndpoint ==
    [uuids |-> {1}, users |-> Users, anonymous |-> {EmptyMetadata},
     creates |-> {TwoParty},
     assigns |-> {AssignDataRequest(TaskKey(1), In(InputPrefix, 1), Out(OutputPrefix, 2),
                                    rpc) : rpc \in {"ok", "task", "file"}},
     tasks |-> {TaskRequest(TaskKey(1), rpc) : rpc \in {"ok", "task", "file"}},
     keys |-> {ExternalID(InputPrefix, 5), ExternalID(OutputPrefix, 5),
               ExternalID(FunctionPrefix, 3)},
     input_files |-> {[url |-> "s3://in", cmac |-> TRUE, crypto_info |-> "aes-gcm-128"]},
     output_files |-> {[url |-> "s3://out", crypto_info |-> "aes-gcm-128"]},
     owner_lists |-> {{"alice"}, {"alice", "bob"}, {"bob", "carol"}},
     functions |-> {[public |-> p, arguments |-> {"arg"}, inputs |-> {"in"},
                     outputs |-> {"out"}] : p \in BOOLEAN},
     data_ids |-> {ExternalID(InputPrefix, 1), ExternalID(InputPrefix, 3),
                   ExternalID(InputPrefix, 5), ExternalID(OutputPrefix, 3),
                   ExternalID(OutputPrefix, 4), ExternalID(OutputPrefix, 5),
                   ExternalID(FunctionPrefix, 2), ExternalID(FunctionPrefix, 3),
                   TaskKey(1)}]

RegisterInputFileAll == RegisterInputFile(Sequential, EveryEndpoint)

RegisterOutputFileAll == RegisterOutputFile(Sequential, EveryEndpoint)

RegisterFusionOutputAll == RegisterFusionOutput(Sequential, EveryEndpoint)

RegisterInputFromOutputAll == RegisterInputFromOutput(Sequential, EveryEndpoint)

GetOutputFileAll == GetOutputFile(Sequential, EveryEndpoint)

GetInputFileAll == GetInputFile(Sequential, EveryEndpoint)

RegisterFunctionAll == RegisterFunction(Sequential, EveryEndpoint)

GetFunctionAll == GetFunction(Sequential, EveryEndpoint)

CreateTaskAll == CreateTaskRead(Sequential, EveryEndpoint) \/ CreateTaskWrite(Sequential)

GetTaskAll == GetTask(Sequential, EveryEndpoint)

AssignDataAll == AssignDataRead(Sequential, EveryEndpoint) \/ AssignDataWrite(Sequential)

ApproveTaskAll == ApproveTaskRead(Sequential, EveryEndpoint) \/ ApproveTaskWrite(Sequential)

InvokeTaskAll ==
    \/ InvokeTaskRead(Sequential, EveryEndpoint)
    \/ InvokeTaskEnqueue(Sequential)
    \/ InvokeTaskWrite(Sequential)

NextAll ==
    \/ RegisterInputFileAll \/ RegisterOutputFileAll \/ RegisterFusionOutputAll
    \/ RegisterInputFromOutputAll \/ GetOutputFileAll \/ GetInputFileAll
    \/ RegisterFunctionAll \/ GetFunctionAll
    \/ CreateTaskAll \/ GetTaskAll \/ AssignDataAll \/ ApproveTaskAll \/ InvokeTaskAll
    \/ Deliver

SpecAll == Init /\ [][NextAll]_vars

(***************************************************************************)
(* start_service: the construction of the service, then the service        *)
(* processing one request at a time.  The constructor's thread keeps       *)
(* running: a connect returns and a sleep ends.                            *)
(***************************************************************************)
InitNew ==
    /\ db = MockData
    /\ queue = <<>>
    /\ hs = [h \in Handlers |-> Idle]
    /\ resp = NoResponse
    /\ conn = Constructing
    /\ lock = {}
    /\ th = [t \in Threads |-> Resting]

Serve == conn.pc = "serving" /\ NextSeq

NextNew == Connect \/ Sleep \/ Serve

SpecNew == InitNew /\ [][NextNew]_vars /\ WF_vars(Connect) /\ WF_vars(Sleep)

(***************************************************************************)
(* The handlers as threads on the shared Storage client.                   *)
(***************************************************************************)
NextLock == \E t \in Threads : Start(t) \/ Lock(t) \/ Call(t) \/ Receive(t)

SpecLock == Init /\ [][NextLock]_vars

(***************************************************************************)
(* Properties.                                                             *)
(***************************************************************************)
TaskIds == {TaskKey(u) : u \in TaskUuids}

Stored(k) == db[k] # NoValue

StoredTasks == {k \in TaskIds : Stored(k)}

\* A handler returns its response in this step.
Returns == resp = NoResponse /\ resp' # NoResponse

\* Handler h, which was past its first Get, leaves in this step.
Leaves(h) == hs[h] # Idle /\ hs'[h] = Idle

StagedTasksOf(k) == {i \in 1..Len(queue) : queue[i].task_id = k}

\* C1: the status of a task persisted in Storage never moves to an earlier
\* state of Created < DataAssigned < Approved < Staged < Running < Finished,
\* whatever the interleaving of the handlers' Storage calls.
C1_StatusNeverRegresses ==
    [][\A k \in TaskIds :
          Stored(k) =>
              i32_from_task_status(db[k].status) <= i32_from_task_status(db'[k].status)]_vars

\* C2: a user in the persisted approved_users of a task (an ApproveTask that
\* returned Ok) stays in it after any later step of any handler.
C2_ApprovalsNeverLost ==
    [][\A k \in TaskIds :
          Stored(k) => db[k].approved_users \subseteq db'[k].approved_users]_vars

ApprovedOrLater == {Approved, Staged, Running, Finished}

HasSlots(t) == DOMAIN t.inputs_ownership \cup DOMAIN t.outputs_ownership # {}

\* C3 as stated: a persisted task has status Approved exactly when
\* approved_users holds every participant but the creator and every declared
\* input and output slot is assigned.
C3_ApprovedIff ==
    \A k \in StoredTasks :
        db[k].status = Approved <=> (fully_approved(db[k]) /\ fully_assigned(db[k]))

\* C3 amended: a persisted task that has left Created has status Approved
\* or later exactly when approved_users holds every participant but the
\* creator and every declared slot is assigned; a task in Created that
\* declares a slot is not fully assigned.
C3_ApprovedOrLaterIff ==
    \A k \in StoredTasks :
        /\ db[k].status # Created =>
              (db[k].status \in ApprovedOrLater
                  <=> (fully_approved(db[k]) /\ fully_assigned(db[k])))
        /\ (db[k].status = Created /\ HasSlots(db[k])) => ~fully_assigned(db[k])

C3_Witness ==
    \E k \in StoredTasks :
        /\ db[k].status = Staged
        /\ db[k].participants # {db[k].creator}
        /\ fully_approved(db[k])
        /\ fully_assigned(db[k])

\* C4: for every persisted task the creator is a participant and
\* approved_users is a subset of participants.
C4_ParticipantsInvariant ==
    \A k \in StoredTasks :
        /\ db[k].creator \in db[k].participants
        /\ db[k].approved_users \subseteq db[k].participants

C4_Witness ==
    \E k \in StoredTasks :
        /\ db[k].approved_users # {}
        /\ db[k].participants \ (db[k].approved_users \cup {db[k].creator}) # {}

\* C5: an invoke_task handler passes its validation only when the caller is
\* the creator of the task it read and that task is Approved, and only such
\* a handler returns Ok; a request of a caller who may invoke no stored task
\* is answered PermissionDenied with Storage and the queue unchanged.
C5_InvokeOnlyCreatorApproved ==
    [][/\ \A h \in Handlers :
            (hs[h] = Idle /\ hs'[h] # Idle /\ hs'[h].op = "invoke_task") =>
                /\ Stored(hs'[h].task_id)
                /\ db[hs'[h].task_id].creator = hs'[h].user
                /\ db[hs'[h].task_id].status = Approved
       /\ (Returns /\ resp'.op = "invoke_task" /\ resp'.result = Ok) =>
             \E h \in Handlers : Leaves(h) /\ hs[h].op = "invoke_task"
       /\ (Returns /\ resp'.op = "invoke_task" /\ hs' = hs) =>
             /\ resp'.result = PermissionDenied
             /\ db' = db
             /\ queue' = queue]_vars

C5_Witness ==
    /\ resp # NoResponse
    /\ resp.op = "invoke_task"
    /\ resp.result = PermissionDenied
    /\ queue = <<>>
    /\ \E k \in StoredTasks : db[k].status = Approved /\ db[k].creator # resp.user

InvokeReturnsOk(h) ==
    /\ Leaves(h)
    /\ hs[h].op = "invoke_task"
    /\ Returns
    /\ resp'.result = Ok

\* C6 as stated: when an invoke_task request returns Ok, the persisted status
\* of its task is Staged and the last element of the staged-task queue
\* carries the task_id of the request.
C6_StagedAtTail ==
    [][\A h \in Handlers :
          InvokeReturnsOk(h) =>
              /\ db'[hs[h].task_id].status = Staged
              /\ queue' # <<>>
              /\ queue'[Len(queue')].task_id = hs[h].task_id]_vars

\* C6 amended: when an invoke_task request returns Ok, the persisted status
\* of its task is Staged and the staged-task queue holds a StagedTask with
\* the task_id of the request; that StagedTask was the last element of the
\* queue when the handler enqueued it.
C6_StagedAndEnqueued ==
    [][\A h \in Handlers :
          /\ InvokeReturnsOk(h) =>
                /\ db'[hs[h].task_id].status = Staged
                /\ StagedTasksOf(hs[h].task_id) # {}
          /\ (At(h, "invoke_task", "enqueue") /\ hs'[h] # hs[h] /\ queue' # queue) =>
                /\ Len(queue') = Len(queue) + 1
                /\ queue'[Len(queue')].task_id = hs[h].task_id
                /\ \A i \in 1..Len(queue) : queue'[i] = queue[i]]_vars

C6_Witness ==
    /\ resp # NoResponse
    /\ resp.op = "invoke_task"
    /\ resp.result = Ok
    /\ Len(queue) = 2
    /\ queue[1].task_id # queue[2].task_id
    /\ \A k \in TaskIds : Stored(k) /\ db[k].status = Staged

\* C7 as stated: the staged-task queue never holds more than one StagedTask
\* of a task, and holds exactly one once the task is persisted as Staged.
C7_ExactlyOneStagedTask ==
    \A k \in TaskIds :
        /\ Cardinality(StagedTasksOf(k)) <= 1
        /\ (Stored(k) /\ db[k].status = Staged) => Cardinality(StagedTasksOf(k)) = 1

\* C8 as stated: a request that returns an error leaves every Storage key
\* and the staged-task queue as they were before the request: its last step
\* changes neither, and no earlier step of its handler wrote.
C8_ErrorLeavesStateUnchanged ==
    [][(Returns /\ resp'.result # Ok) =>
          /\ db' = db
          /\ queue' = queue
          /\ \A h \in Handlers : Leaves(h) => ~hs[h].wrote]_vars

\* C9: an assign_data request one of whose entries is rejected fails and
\* changes nothing in Storage, and the Put of an assign_data request writes a
\* task record that carries every input and output entry of the request.
C9_AssignDataAtomic ==
    [][/\ (Returns /\ resp'.op = "assign_data" /\ resp'.result # Ok) =>
             (db' = db /\ queue' = queue)
       /\ \A h \in Handlers :
             (Leaves(h) /\ hs[h].op = "assign_data" /\ db' # db) =>
                 /\ \A n \in DOMAIN hs[h].inputs :
                       /\ n \in DOMAIN db'[hs[h].task_id].assigned_inputs
                       /\ db'[hs[h].task_id].assigned_inputs[n] = hs[h].inputs[n]
                 /\ \A n \in DOMAIN hs[h].outputs :
                       /\ n \in DOMAIN db'[hs[h].task_id].assigned_outputs
                       /\ db'[hs[h].task_id].assigned_outputs[n] = hs[h].outputs[n]]_vars

C9_Witness ==
    /\ resp # NoResponse
    /\ resp.op = "assign_data"
    /\ resp.result = PermissionDenied
    /\ resp.accepted = 1
    /\ \E k \in StoredTasks :
          db[k].assigned_inputs = EmptyMap /\ db[k].assigned_outputs = EmptyMap

\* The single-entry requests C10 ranges over: the direction, the slot name
\* and the data id of the entry.
EntryRequests ==
    {[dir |-> d, name |-> n, id |-> ExternalID(p, u)] :
        d \in {"input", "output"}, n \in {"in", "out"},
        p \in {InputPrefix, OutputPrefix}, u \in {1, 2, 3, 4}}

EntryAccepted(t, user, e) ==
    assign_data(t, user,
                IF e.dir = "input" THEN e.name :> e.id ELSE EmptyMap,
                IF e.dir = "output" THEN e.name :> e.id ELSE EmptyMap,
                TRUE).ok

EntryConditions(t, user, e) ==
    LET ownership == IF e.dir = "input" THEN t.inputs_ownership ELSE t.outputs_ownership
        kind == IF e.dir = "input" THEN "input" ELSE "output"
    IN  /\ user \in t.participants
        /\ e.name \in DOMAIN ownership
        /\ db[e.id].kind = kind
        /\ db[e.id].owner = ownership[e.name]
        /\ user \in db[e.id].owner

Finalized(e) == e.dir = "output" /\ db[e.id].kind = "output" /\ db[e.id].cmac

\* C10 as stated: an entry of an assign_data request on a persisted task is
\* accepted exactly when the caller is a participant, the name is a declared
\* slot of the entry's direction, the id resolves to a file of the matching
\* kind whose owner set equals the slot's ownership, and the caller is one
\* of the file's owners.
C10_EntryAcceptedIff ==
    \A k \in StoredTasks, user \in Users, e \in EntryRequests :
        EntryAccepted(db[k], user, e) <=> EntryConditions(db[k], user, e)

\* C10 amended: an entry of an assign_data request on a persisted task in
\* Created is accepted exactly when the five conditions hold and, for an
\* output entry, the file is not finalized (it has no cmac); a request that
\* fails before its Put because of its entries returns PermissionDenied.
\* The first conjunct reads db alone and no task is stored initially: it is
\* stated of the state after every step that changes db.
C10_EntryAcceptedIffNotFinalized ==
    [][/\ db' # db =>
             (\A k \in StoredTasks, user \in Users, e \in EntryRequests :
                 db[k].status = Created =>
                     (EntryAccepted(db[k], user, e)
                         <=> (EntryConditions(db[k], user, e) /\ ~Finalized(e))))'
       /\ (Returns /\ resp'.op = "assign_data" /\ hs' = hs) =>
             resp'.result = PermissionDenied]_vars

C10_Witness ==
    /\ resp # NoResponse
    /\ resp.op = "assign_data"
    /\ resp.result = PermissionDenied
    /\ resp.accepted = 1
    /\ \E k \in StoredTasks, user \in Users, e \in EntryRequests :
          /\ db[k].status = Created
          /\ EntryConditions(db[k], user, e)
          /\ Finalized(e)
          /\ ~EntryAccepted(db[k], user, e)

\* C11: no task persisted in Storage holds an assigned output that is
\* finalized (has a cmac), and an assign_data handler that has passed its
\* checks, the only one that can return Ok, carries no output entry whose
\* file is finalized.
C11_NoFinalizedOutputAssigned ==
    /\ \A k \in StoredTasks :
          \A n \in DOMAIN db[k].assigned_outputs : ~db[db[k].assigned_outputs[n]].cmac
    /\ \A h \in Handlers :
          (hs[h] # Idle /\ hs[h].op = "assign_data") =>
              \A n \in DOMAIN hs[h].outputs : ~db[hs[h].outputs[n]].cmac

C11_Witness ==
    /\ resp # NoResponse
    /\ resp.op = "assign_data"
    /\ resp.result = PermissionDenied
    /\ resp.accepted = 1
    /\ \E k \in StoredTasks :
          /\ db[k].status = DataAssigned
          /\ db[k].assigned_outputs = Out(OutputPrefix, 1)
          /\ resp.user \in db[k].participants
          /\ db[ExternalID(OutputPrefix, 3)].cmac
          /\ db[ExternalID(OutputPrefix, 3)].owner = db[k].outputs_ownership["out"]

\* C12 as stated: no assign_data request passes its checks on a task whose
\* status is Approved or later, and the assigned_inputs and assigned_outputs
\* of a persisted task whose status is Approved or later never change.
C12_NoAssignmentAfterApproved ==
    [][/\ \A h \in Handlers :
             (hs[h] = Idle /\ hs'[h] # Idle /\ hs'[h].op = "assign_data") =>
                 db[hs'[h].task_id].status \notin ApprovedOrLater
       /\ \A k \in TaskIds :
             (Stored(k) /\ db[k].status \in ApprovedOrLater) =>
                 /\ db'[k].assigned_inputs = db[k].assigned_inputs
                 /\ db'[k].assigned_outputs = db[k].assigned_outputs]_vars

\* The entries of the request of in-flight handler state s are recorded in
\* task record t.
Recorded(s, t) ==
    /\ \A n \in DOMAIN s.inputs :
          n \in DOMAIN t.assigned_inputs /\ t.assigned_inputs[n] = s.inputs[n]
    /\ \A n \in DOMAIN s.outputs :
          n \in DOMAIN t.assigned_outputs /\ t.assigned_outputs[n] = s.outputs[n]

MayApprove(t, user) == user \in t.participants \ {t.creator} /\ t.status = DataAssigned

ApproveReturnsOk(h) ==
    /\ Leaves(h)
    /\ hs[h].op = "approve_task"
    /\ Returns
    /\ resp'.result = Ok

\* C15: with requests processed one at a time, an approve_task request that
\* returns Ok on a fully assigned task adds the caller to approved_users and
\* nobody else; the status it leaves is DataAssigned while a participant
\* other than the creator is missing from approved_users and Approved once
\* none is missing, and the creator is never among the approvers.
C15_ApprovedWhenAllApproved ==
    [][\A h \in Handlers :
          ApproveReturnsOk(h) =>
              LET old == db[hs[h].task_id]
                  new == db'[hs[h].task_id]
                  missing == new.participants \ ({new.creator} \cup new.approved_users)
              IN  /\ old.status = DataAssigned
                  /\ fully_assigned(new)
                  /\ new.approved_users = old.approved_users \cup {hs[h].user}
                  /\ new.creator \notin new.approved_users
                  /\ missing # {} => new.status = DataAssigned
                  /\ missing = {} => new.status = Approved]_vars

C15_Witness ==
    /\ resp # NoResponse
    /\ resp.op = "approve_task"
    /\ resp.result = Ok
    /\ \E k \in StoredTasks :
          /\ db[k].status = Approved
          /\ db[k].approved_users = {"bob", "carol"}
          /\ db[k].creator = "alice"

AssignReturnsOk(h) ==
    /\ Leaves(h)
    /\ hs[h].op = "assign_data"
    /\ Returns
    /\ resp'.result = Ok

\* C16: when an assign_data request that assigns at least one slot returns
\* Ok on a task whose only participant is its creator and the record it
\* writes has every declared slot assigned, that record has status Approved
\* with no approval given, so it passes the validation of an invoke_task by
\* the creator.
C16_SinglePartyAutoApproved ==
    [][\A h \in Handlers :
          (/\ AssignReturnsOk(h)
           /\ hs[h].accepted > 0
           /\ db'[hs[h].task_id].participants = {db'[hs[h].task_id].creator}
           /\ fully_assigned(db'[hs[h].task_id])) =>
              /\ db'[hs[h].task_id].status = Approved
              /\ db'[hs[h].task_id].approved_users = {}
              /\ InvokeAllowed(db'[hs[h].task_id], db'[hs[h].task_id].creator)]_vars

C16_Witness ==
    /\ resp # NoResponse
    /\ resp.op = "invoke_task"
    /\ resp.result = Ok
    /\ Len(queue) = 1
    /\ \E k \in StoredTasks :
          /\ db[k].participants = {resp.user}
          /\ db[k].approved_users = {}
          /\ db[k].assigned_inputs # EmptyMap
          /\ db[k].status = Staged

\* C17 as stated: with requests processed one at a time, an assign_data
\* request that returns Ok on a task in Created that declares a slot leaves
\* it in DataAssigned when every declared slot is then assigned, and in
\* Created otherwise.
C17_DataAssignedWhenFullyAssigned ==
    [][\A h \in Handlers :
          (AssignReturnsOk(h) /\ db[hs[h].task_id].status = Created) =>
              LET new == db'[hs[h].task_id]
              IN  /\ (fully_assigned(new) /\ HasSlots(new)) => new.status = DataAssigned
                  /\ ~fully_assigned(new) => new.status = Created]_vars

\* C17 amended: with requests processed one at a time, an assign_data request
\* that returns Ok on a task in Created leaves it in Created while a
\* declared slot is unassigned; once every declared slot of a task that
\* declares one is assigned, the status is DataAssigned when the task has a
\* participant other than its creator and Approved when it has none; a task
\* that declares no slot stays in Created.
C17_FullyAssignedLeavesCreated ==
    [][\A h \in Handlers :
          (AssignReturnsOk(h) /\ db[hs[h].task_id].status = Created) =>
              LET new == db'[hs[h].task_id]
              IN  /\ ~fully_assigned(new) => new.status = Created
                  /\ ~HasSlots(new) => new.status = Created
                  /\ (fully_assigned(new) /\ HasSlots(new)) =>
                        /\ hs[h].accepted > 0
                        /\ new.participants # {new.creator} => new.status = DataAssigned
                        /\ new.participants = {new.creator} => new.status = Approved]_vars

C17_Witness ==
    /\ resp # NoResponse
    /\ resp.op = "assign_data"
    /\ resp.result = Ok
    /\ resp.accepted = 2
    /\ \E k \in StoredTasks :
          /\ db[k].status = DataAssigned
          /\ db[k].approved_users = {}
          /\ db[k].participants # {db[k].creator}
          /\ fully_assigned(db[k])

\* C18 as stated: for every persisted task, Task::approve by a user who is
\* already in approved_users succeeds and returns the task unchanged.
C18_RepeatedApproveOk ==
    \A k \in StoredTasks :
        \A user \in db[k].approved_users :
            /\ approve(db[k], user).ok
            /\ approve(db[k], user).task = db[k]

\* C18 amended: with requests processed one at a time, Task::approve by a
\* user who is already in approved_users returns the task unchanged, and it
\* succeeds exactly while the task is in DataAssigned; an approve_task
\* request of such a user that returns Ok leaves Storage as it was, and one
\* that is refused (the task is Approved or later) does too.
C18_RepeatedApproveNoChange ==
    [][/\ db' # db =>
             (\A k \in StoredTasks :
                 \A user \in db[k].approved_users :
                     /\ approve(db[k], user).task = db[k]
                     /\ approve(db[k], user).ok <=> db[k].status = DataAssigned)'
       /\ \A h \in Handlers :
             (ApproveReturnsOk(h) /\ hs[h].user \in db[hs[h].task_id].approved_users) =>
                 db' = db
       /\ (Returns /\ resp'.op = "approve_task" /\ resp'.result = PermissionDenied) =>
             db' = db]_vars

C18_Witness ==
    /\ resp # NoResponse
    /\ resp.op = "approve_task"
    /\ resp.result = PermissionDenied
    /\ \E k \in StoredTasks :
          /\ db[k].status = Approved
          /\ resp.user \in db[k].approved_users

MayRead(function, user) == function.public \/ function.owner = user

\* C19 as stated: the creator of every task persisted in Storage may read
\* the task's function (the function is public or owned by the creator),
\* and a create_task handler passes its checks only for such a caller.
C19_CreateTaskFunctionAccess ==
    /\ \A k \in StoredTasks : MayRead(db[db[k].function_id], db[k].creator)
    /\ \A h \in Handlers :
          (hs[h] # Idle /\ hs[h].op = "create_task") =>
              MayRead(db[hs[h].task.function_id], hs[h].user)

\* The function the request names is stored, and the request's argument
\* names, input slots and output slots are those the function declares.
Readable(req) ==
    req.function_id.prefix = FunctionPrefix /\ db[req.function_id] # NoValue

Matches(req) ==
    /\ req.function_arguments = db[req.function_id].arguments
    /\ DOMAIN req.inputs_ownership = db[req.function_id].inputs
    /\ DOMAIN req.outputs_ownership = db[req.function_id].outputs

Blank(t) ==
    /\ t.status = Created
    /\ t.assigned_inputs = EmptyMap
    /\ t.assigned_outputs = EmptyMap
    /\ t.approved_users = {}

\* C20: a create_task request on a readable function whose argument names,
\* input slots or output slots differ from the function's is answered
\* BadTask and writes nothing; one in which all three match passes, and the
\* task its Put stores under a fresh key has status Created, no assignment
\* and no approval.
C20_BadTaskOrCreated ==
    [][/\ \A req \in CreateTaskRequests :
             Readable(req) =>
                 /\ ~Matches(req) => create_task(req, TRUE).result = BadTask
                 /\ Matches(req) =>
                       /\ create_task(req, TRUE).result = Ok
                       /\ Blank(create_task(req, TRUE).task)
       /\ (Returns /\ resp'.op = "create_task" /\ resp'.result = BadTask) =>
             (db' = db /\ queue' = queue /\ hs' = hs)
       /\ \A h \in Handlers :
             (Leaves(h) /\ hs[h].op = "create_task" /\ Returns /\ resp'.result = Ok) =>
                 /\ db[hs[h].task_id] = NoValue
                 /\ db' = write_to_db(hs[h].task_id, hs[h].task)
                 /\ Blank(db'[hs[h].task_id])
                 /\ DOMAIN db'[hs[h].task_id].inputs_ownership
                       = db[db'[hs[h].task_id].function_id].inputs
                 /\ DOMAIN db'[hs[h].task_id].outputs_ownership
                       = db[db'[hs[h].task_id].function_id].outputs
                 /\ db'[hs[h].task_id].function_arguments
                       = db[db'[hs[h].task_id].function_id].arguments]_vars

C20_Witness ==
    /\ resp # NoResponse
    /\ resp.op = "create_task"
    /\ resp.result = BadTask
    /\ StoredTasks = {}
    /\ \E req \in CreateTaskRequests :
          /\ req.user = resp.user
          /\ Readable(req)
          /\ ~Matches(req)

(***************************************************************************)
(* Properties of the endpoints of files and functions.  Answers(ops) holds *)
(* of a step in which a handler returns the response of one of the         *)
(* endpoints ops to a caller who sent an id.  StoredFiles(prefix) are the  *)
(* stored files of a kind.                                                 *)
(***************************************************************************)
Answers(ops) == resp = NoResponse /\ resp' # NoResponse /\ resp'.op \in ops /\ resp'.user # NoUser

FilePrefix(op) == IF op = "get_input_file" THEN InputPrefix ELSE OutputPrefix

StoredFiles(prefix) == {k \in Keys : k.prefix = prefix /\ db[k] # NoValue}

OwnersRead ==
    \A u \in Users :
        /\ \A e \in StoredFiles(InputPrefix) :
              get_input_file(u, e, TRUE).result = Ok <=> u \in db[e].owner
        /\ \A e \in StoredFiles(OutputPrefix) :
              get_output_file(u, e, TRUE).result = Ok <=> u \in db[e].owner

(***************************************************************************)
(* C21: get_input_file and get_output_file by a caller succeed only for a  *)
(* stored file of the endpoint's kind of which the caller is an owner, and *)
(* then return the owners and the cmac of the file; every other answer is  *)
(* PermissionDenied; and an owner of a stored file whose Get succeeds is   *)
(* answered Ok.                                                            *)
(***************************************************************************)
C21_GetFileIffOwner ==
    [][/\ Answers({"get_input_file", "get_output_file"}) =>
            LET e == resp'.id IN
            /\ resp'.result \in {Ok, PermissionDenied}
            /\ resp'.result = Ok =>
                  /\ e \in StoredFiles(FilePrefix(resp'.op))
                  /\ resp'.user \in db[e].owner
                  /\ resp'.value = [owner |-> db[e].owner, cmac |-> db[e].cmac]
            /\ resp'.result = PermissionDenied => resp'.value = NoValue
       /\ db = MockData => OwnersRead
       /\ db' # db => OwnersRead'
      ]_vars

C21_Witness ==
    /\ resp # NoResponse
    /\ resp.op = "get_output_file"
    /\ resp.result = Ok
    /\ resp.id = ExternalID(OutputPrefix, 5)
    /\ resp.user = "bob"
    /\ resp.value = [owner |-> {"alice", "bob"}, cmac |-> FALSE]

StoredFunctions == {k \in Keys : k.prefix = FunctionPrefix /\ db[k] # NoValue}

FunctionsRead ==
    \A u \in Users, f \in StoredFunctions :
        get_function(u, f, TRUE).result = Ok <=> (db[f].public \/ db[f].owner = u)

(***************************************************************************)
(* C22: get_function by a caller succeeds only for a stored function that  *)
(* is public or owned by the caller, and then returns that function; every *)
(* other answer is PermissionDenied; and a caller for whom a stored        *)
(* function is public or who owns it is answered Ok when the Get succeeds. *)
(* A function that is not public is never returned to a non-owner.         *)
(***************************************************************************)
C22_GetFunctionIffPublicOrOwner ==
    [][/\ Answers({"get_function"}) =>
            LET f == resp'.id IN
            /\ resp'.result \in {Ok, PermissionDenied}
            /\ resp'.result = Ok =>
                  /\ f \in StoredFunctions
                  /\ db[f].public \/ db[f].owner = resp'.user
                  /\ resp'.value = GetFunctionResponse(db[f])
            /\ resp'.result = PermissionDenied => resp'.value = NoValue
       /\ db = MockData => FunctionsRead
       /\ db' # db => FunctionsRead'
      ]_vars

C22_Witness ==
    /\ resp # NoResponse
    /\ resp.op = "get_function"
    /\ resp.result = Ok
    /\ resp.id = ExternalID(FunctionPrefix, 3)
    /\ resp.value.public
    /\ resp.value.owner = "bob"
    /\ resp.user = "carol"

(***************************************************************************)
(* Registered(prefix) holds of a step in which a registration answers Ok:  *)
(* the entity it returns is stored under the id it returns, which was not  *)
(* in use or held that same entity, and nothing else changes.  Rejected    *)
(* holds of a step that leaves Storage and the queue as they were.         *)
(***************************************************************************)
Registered(prefix) ==
    /\ resp'.id \in Keys
    /\ resp'.id.prefix = prefix
    /\ db[resp'.id] \in {NoValue, resp'.value}
    /\ db' = [db EXCEPT ![resp'.id] = resp'.value]
    /\ queue' = queue

Rejected == db' = db /\ queue' = queue

FusionOwners(user_id, owner_list) == Cardinality(owner_list) >= 2 /\ user_id \in owner_list

(***************************************************************************)
(* C23: register_fusion_output answers Ok only when the owner list has at  *)
(* least two users and contains the caller, and PermissionDenied for every *)
(* other owner list, writing nothing; the output file it stores has these  *)
(* owners, the caller among them, and no cmac.                             *)
(***************************************************************************)
C23_FusionOutputOwners ==
    [][/\ Answers({"register_fusion_output"}) =>
            /\ resp'.result \in {Ok, PermissionDenied, StorageError}
            /\ resp'.result = Ok =>
                  /\ Registered(OutputPrefix)
                  /\ resp'.value.kind = "output"
                  /\ FusionOwners(resp'.user, resp'.value.owner)
                  /\ resp'.value.owner \in EveryEndpoint.owner_lists
                  /\ ~resp'.value.cmac
            /\ resp'.result # Ok => Rejected
       /\ db = MockData =>
            \A u \in Users, owner_list \in SUBSET Users :
                /\ FusionOwners(u, owner_list) =>
                      register_fusion_output(u, owner_list).result = Ok
                /\ ~FusionOwners(u, owner_list) =>
                      register_fusion_output(u, owner_list).result = PermissionDenied
      ]_vars

C23_Witness ==
    /\ resp # NoResponse
    /\ resp.op = "register_fusion_output"
    /\ resp.result = Ok
    /\ resp.user = "carol"
    /\ db[resp.id] = OutputFile({"bob", "carol"}, FALSE)

SameFile(input, output) ==
    /\ input.kind = "input"
    /\ input.url = output.url
    /\ input.crypto_info = output.crypto_info
    /\ input.owner = output.owner
    /\ input.cmac = output.cmac

MayRegisterFrom(user_id, d) ==
    /\ d \in StoredFiles(OutputPrefix)
    /\ user_id \in db[d].owner
    /\ db[d].cmac

InputsFromOutputs ==
    \A u \in Users, d \in EveryEndpoint.data_ids :
        LET r == register_input_from_output(u, d, TRUE) IN
        /\ MayRegisterFrom(u, d) => r.result = Ok /\ SameFile(r.file, db[d])
        /\ ~MayRegisterFrom(u, d) => r.result = PermissionDenied

(***************************************************************************)
(* C24: register_input_from_output answers Ok only when the caller is an   *)
(* owner of the stored output file named and that file has a cmac; the     *)
(* input file it stores, under an id not in use, has the url, crypto_info, *)
(* owners and cmac of the output file, which stays as it was; in every     *)
(* other case the answer is PermissionDenied and nothing is written.       *)
(***************************************************************************)
C24_InputFromFinalizedOutput ==
    [][/\ Answers({"register_input_from_output"}) =>
            /\ resp'.result \in {Ok, PermissionDenied, StorageError}
            /\ resp'.result = Ok =>
                  /\ Registered(InputPrefix)
                  /\ \E d \in StoredFiles(OutputPrefix) :
                        /\ MayRegisterFrom(resp'.user, d)
                        /\ SameFile(db'[resp'.id], db[d])
                        /\ db'[d] = db[d]
            /\ resp'.result # Ok => Rejected
       /\ db = MockData => InputsFromOutputs
       /\ db' # db => InputsFromOutputs'
      ]_vars

C24_Witness ==
    /\ resp # NoResponse
    /\ resp.op = "register_input_from_output"
    /\ resp.result = Ok
    /\ resp.user = "carol"
    /\ SameFile(db[resp.id], db[ExternalID(OutputPrefix, 3)])

(***************************************************************************)
(* The endpoints that read the entity a request names, the kind of entity  *)
(* each expects, whom the spec lets access a stored entity of that kind,   *)
(* and the answer of each to a caller and an id, when the Storage Get of    *)
(* the entity succeeds (rpc_ok) and when it fails.                         *)
(***************************************************************************)
FileReaders == {"get_input_file", "get_output_file", "get_function", "get_task",
                "register_input_from_output"}

EntityReaders == FileReaders \cup {"create_task"}

Expects(op) ==
    CASE op = "get_input_file" -> InputPrefix
      [] op \in {"get_output_file", "register_input_from_output"} -> OutputPrefix
      [] op \in {"get_function", "create_task"} -> FunctionPrefix
      [] op = "get_task" -> TaskPrefix

MayAccess(entity, user_id) ==
    CASE entity.kind \in {"input", "output"} -> user_id \in entity.owner
      [] entity.kind = "function" -> MayRead(entity, user_id)
      [] entity.kind = "task" -> user_id \in entity.participants

AnswerWhen(op, user_id, id, rpc_ok) ==
    CASE op = "get_input_file" -> get_input_file(user_id, id, rpc_ok).result
      [] op = "get_output_file" -> get_output_file(user_id, id, rpc_ok).result
      [] op = "get_function" -> get_function(user_id, id, rpc_ok).result
      [] op = "get_task" -> get_task(user_id, id, rpc_ok).result
      [] op = "register_input_from_output" ->
            register_input_from_output(user_id, id, rpc_ok).result
      [] op = "create_task" ->
            create_task([NoSlots EXCEPT !.user = user_id, !.function_id = id],
                        rpc_ok).result

Answer(op, user_id, id) == AnswerWhen(op, user_id, id, TRUE)

WrongKind(op, id) == id.prefix # Expects(op)

Unreadable(op, user_id, id) ==
    \/ WrongKind(op, id)
    \/ db[id] = NoValue
    \/ ~MayAccess(db[id], user_id)

DenialsAlike(ops) ==
    \A op \in ops, user_id \in Users, id \in Keys :
        /\ Unreadable(op, user_id, id) => Answer(op, user_id, id) = PermissionDenied
        /\ WrongKind(op, id) =>
              \A rpc_ok \in BOOLEAN : read_from_db(Expects(op), id, rpc_ok).gets = 0

TaskReaders == {"assign_data", "approve_task", "invoke_task"}

(***************************************************************************)
(* C25: an endpoint that reads the entity a request names answers          *)
(* PermissionDenied, with nothing else in the response, alike when the id  *)
(* is of another kind, when nothing is stored under it and when the caller *)
(* may not access the entity; for an id of another kind it issues no       *)
(* Storage Get.  The handlers of a task that return at their first step    *)
(* answer PermissionDenied.                                                *)
(***************************************************************************)
C25_DenialsIndistinguishable ==
    [][/\ db = MockData => DenialsAlike(EntityReaders)
       /\ db' # db => DenialsAlike(EntityReaders)'
       /\ (Answers(FileReaders) /\ resp'.result = PermissionDenied) =>
             resp'.value = NoValue
       /\ (Answers(TaskReaders) /\ hs' = hs) =>
             resp' = Response(resp'.op, resp'.user, PermissionDenied, resp'.accepted)
      ]_vars

DenialsAlikeButCreateTask ==
    [][/\ db = MockData => DenialsAlike(FileReaders)
       /\ db' # db => DenialsAlike(FileReaders)'
       /\ (Answers(FileReaders) /\ resp'.result = PermissionDenied) =>
             resp'.value = NoValue
       /\ (Answers(TaskReaders) /\ hs' = hs) =>
             resp' = Response(resp'.op, resp'.user, PermissionDenied, resp'.accepted)
      ]_vars

Endpoints ==
    {"register_input_file", "register_output_file", "register_fusion_output",
     "register_input_from_output", "get_output_file", "get_input_file",
     "register_function", "get_function", "create_task", "get_task", "assign_data",
     "approve_task", "invoke_task"}

(***************************************************************************)
(* C26: a request whose metadata has no "id" is answered InvalidRequest by *)
(* the first step of its handler, which leaves Storage and the queue as    *)
(* they were and goes no further; no handler works for a caller without an *)
(* id, and InvalidRequest is the answer to such requests only.             *)
(***************************************************************************)
C26_NoIdInvalidRequest ==
    [][/\ (Returns /\ resp'.user = NoUser) =>
             /\ resp'.op \in Endpoints
             /\ resp'.result = InvalidRequest
             /\ hs' = hs
             /\ Rejected
       /\ (Returns /\ resp'.result = InvalidRequest) => resp'.user = NoUser
       /\ \A h \in Handlers : hs'[h] # Idle => hs'[h].user # NoUser
      ]_vars

C26_Witness ==
    /\ resp # NoResponse
    /\ resp.op = "invoke_task"
    /\ resp.result = InvalidRequest
    /\ db[TaskKey(1)] # NoValue
    /\ db[TaskKey(1)].status = Approved

(***************************************************************************)
(* The answers when a Storage call fails.  GetFails: the Get of a stored   *)
(* entity of the expected kind fails.  EnqueueFails(h), PutFails(h):       *)
(* handler h leaves in the step of its Enqueue, or in the step of its Put  *)
(* with an error.                                                          *)
(***************************************************************************)
GetFailsStorageError ==
    \A op \in EntityReaders, user_id \in Users, id \in Keys :
        (~WrongKind(op, id) /\ db[id] # NoValue) =>
            AnswerWhen(op, user_id, id, FALSE) = StorageError

EnqueueFails(h) == hs[h] # Idle /\ hs[h].pc = "enqueue" /\ Leaves(h)

PutFails(h) == hs[h] # Idle /\ hs[h].pc = "write" /\ Leaves(h) /\ resp'.result # Ok

EnqueueFailsStorageError ==
    [][\A h \in Handlers : EnqueueFails(h) => resp'.result = StorageError]_vars

PutFailsStorageError ==
    [][/\ \A h \in Handlers : PutFails(h) => resp'.result = StorageError
       /\ (Answers(Endpoints) /\ resp'.result = StorageError) => Rejected]_vars

(***************************************************************************)
(* C27: when a Storage call of a handler fails, the Get of a stored        *)
(* entity, the Enqueue or the Put, the caller is answered StorageError.    *)
(***************************************************************************)
C27_StorageFailureIsStorageError ==
    [][/\ db = MockData => GetFailsStorageError
       /\ db' # db => GetFailsStorageError'
       /\ \A h \in Handlers : EnqueueFails(h) => resp'.result = StorageError
       /\ \A h \in Handlers : PutFails(h) => resp'.result = StorageError
      ]_vars

(***************************************************************************)
(* C28: a stored input file, output file or function is never overwritten  *)
(* with another value, and no stored entity, a task included, is ever      *)
(* removed.                                                                *)
(***************************************************************************)
C28_StoredEntitiesImmutable ==
    [][db' # db =>
          \A k \in Keys :
              db[k] # NoValue =>
                  /\ db'[k] # NoValue
                  /\ k.prefix # TaskPrefix => db'[k] = db[k]]_vars

C28_Witness ==
    /\ db[ExternalID(InputPrefix, 5)] # NoValue
    /\ db[ExternalID(InputPrefix, 3)] # NoValue
    /\ db[ExternalID(OutputPrefix, 5)] # NoValue
    /\ db[ExternalID(FunctionPrefix, 3)] # NoValue
    /\ db[TaskKey(1)] # NoValue
    /\ db[TaskKey(1)].status = Staged
    /\ \A k \in Keys : MockData[k] # NoValue => db[k] = MockData[k]

Returned == conn.pc \in {"serving", "failed"}

(***************************************************************************)
(* C29 as stated: new calls connect at most ten times.                     *)
(***************************************************************************)
C29_AtMostTenAttempts == conn.attempts <= MaxRetries

(***************************************************************************)
(* C29: new terminates.  It calls connect at most MaxRetries + 1 times;    *)
(* the connect that succeeds is the last one and new returns without       *)
(* another; when no connect succeeds, new returns the error after exactly  *)
(* MaxRetries + 1 calls; once new has returned no further connect is made; *)
(* and new eventually returns.                                             *)
(***************************************************************************)
C29_ConstructionTerminates ==
    /\ [](conn.attempts <= MaxRetries + 1)
    /\ []((conn.pc = "failed" /\ ~conn.connected) => conn.attempts = MaxRetries + 1)
    /\ [](conn.connected => Returned)
    /\ [][Returned => conn' = conn]_vars
    /\ <>Returned

C29_Witness ==
    /\ conn.pc = "serving"
    /\ conn.attempts = MaxRetries + 1
    /\ \E k \in StoredTasks : db[k].status = Staged

InFlight == {t \in Threads : th[t].pc = "rpc"}

Waiting == {t \in Threads : th[t].pc = "waiting"}

(***************************************************************************)
(* C30: at most one Storage RPC is in flight on the shared client, made by *)
(* the one thread that holds the lock; a thread releases the lock in the   *)
(* step in which its RPC returns, so it holds the lock for one RPC and     *)
(* never while it waits for the lock; and whenever a thread waits for the  *)
(* lock, a thread can lock, call or receive: no deadlock.                  *)
(***************************************************************************)
C30_OneRpcInFlight ==
    /\ [](Cardinality(InFlight) <= 1)
    /\ [](Cardinality(lock) <= 1)
    /\ [](InFlight \subseteq lock)
    /\ [](lock \cap Waiting = {})
    /\ [][\A t \in Threads :
             /\ (t \in InFlight /\ th'[t] # th[t]) => t \notin lock'
             /\ (t \in lock /\ t \in lock') => Len(th'[t].rpcs) = Len(th[t].rpcs)]_vars
    /\ [](Waiting # {} => \E t \in Threads : ENABLED (Lock(t) \/ Call(t) \/ Receive(t)))

C30_Witness ==
    /\ th[1].pc = "rpc"
    /\ th[1].rpcs = <<"Enqueue", "Put">>
    /\ th[2].pc = "waiting"
    /\ th[3].pc = "waiting"

ApprovedWithReplacedInput ==
    \E k \in StoredTasks :
        /\ db[k].status = Approved
        /\ db[k].assigned_inputs = In(InputPrefix, 4)
        /\ db[k].approved_users = {"bob", "carol"}

(***************************************************************************)
(* DescribesTask(st, k, t, function): the StagedTask st is the task t of   *)
(* id k with the function it names.                                        *)
(***************************************************************************)
DescribesTask(st, k, t, function) ==
    /\ st.task_id = k
    /\ st.function_payload = function.payload
    /\ st.function_arguments = t.function_arguments
    /\ DOMAIN st.input_data = DOMAIN t.inputs_ownership
    /\ DOMAIN st.output_data = DOMAIN t.outputs_ownership
    /\ \A n \in DOMAIN st.input_data : st.input_data[n] = t.assigned_inputs[n]
    /\ \A n \in DOMAIN st.output_data : st.output_data[n] = t.assigned_outputs[n]

(***************************************************************************)
(* C32: the StagedTask an invoke_task handler builds describes the task    *)
(* and the function named by task.function_id as stored when the handler   *)
(* read them: the id of the task, the payload of the function, the         *)
(* arguments of the task, and under exactly the declared input and output  *)
(* names the files assigned to them; and that StagedTask is the one the    *)
(* handler appends to the queue.                                           *)
(***************************************************************************)
C32_StagedTaskDescribesTask ==
    [][\A h \in Handlers :
          /\ (hs[h] = Idle /\ hs'[h] # Idle /\ hs'[h].op = "invoke_task") =>
                LET k == hs'[h].task_id IN
                /\ db[k].function_id.prefix = FunctionPrefix
                /\ DescribesTask(hs'[h].staged_task, k, db[k], db[db[k].function_id])
          /\ (At(h, "invoke_task", "enqueue") /\ queue' # queue) =>
                queue' = Append(queue, hs[h].staged_task)]_vars

C32_Witness ==
    /\ resp # NoResponse
    /\ resp.op = "invoke_task"
    /\ resp.result = Ok
    /\ queue # <<>>
    /\ LET st == queue[Len(queue)] IN
       /\ st.task_id \in StoredTasks
       /\ db[st.task_id].status = Staged
       /\ st.function_payload = db[ExternalID(FunctionPrefix, 1)].payload
       /\ st.function_arguments = {"arg"}
       /\ st.input_data = In(InputPrefix, 1)
       /\ st.output_data = Out(OutputPrefix, 1)

ParticipantsRead ==
    \A u \in Users, t \in StoredTasks :
        /\ get_task(u, t, TRUE).result = Ok <=> u \in db[t].participants
        /\ get_task(u, t, TRUE).result \in {Ok, PermissionDenied}

(***************************************************************************)
(* C33: get_task by a caller succeeds only for a stored task of which the  *)
(* caller is a participant, and then returns the fields of the stored      *)
(* task; every other answer is PermissionDenied without a value; a         *)
(* participant of a stored task whose Get succeeds is answered Ok; and     *)
(* get_task changes neither the storage nor the queue.                     *)
(***************************************************************************)
C33_GetTaskIffParticipant ==
    [][/\ Answers({"get_task"}) =>
            LET t == resp'.id IN
            /\ Rejected
            /\ resp'.result \in {Ok, PermissionDenied}
            /\ resp'.result = Ok =>
                  /\ t \in StoredTasks
                  /\ resp'.user \in db[t].participants
                  /\ resp'.value = GetTaskResponse(t, db[t])
            /\ resp'.result = PermissionDenied => resp'.value = NoValue
       /\ db = MockData => ParticipantsRead
       /\ db' # db => ParticipantsRead'
      ]_vars

C33_Witness ==
    /\ resp # NoResponse
    /\ resp.op = "get_task"
    /\ resp.result = Ok
    /\ resp.user = "bob"
    /\ resp.id \in StoredTasks
    /\ resp.value.participants = {"alice", "bob"}
    /\ resp.value.creator = "alice"
    /\ resp.value.status = db[resp.id].status

GetTaskDeniedToStranger ==
    /\ resp # NoResponse
    /\ resp.op = "get_task"
    /\ resp.result = PermissionDenied
    /\ resp.user = "carol"
    /\ resp.id \in StoredTasks

(***************************************************************************)
(* Properties of the keys and bytes of the stored entities.                *)
(* KeyOfItsKind(k): the key string of k matches the prefix of the kind of  *)
(* the entity stored under k and of no other kind.  ReadsBack(k): a read   *)
(* of k as that kind returns the entity as written, and a read of k as     *)
(* any other kind fails, whatever the Get does.                            *)
(***************************************************************************)
StoredKeys == {k \in Keys : db[k] # NoValue}

KeyOfItsKind(k) ==
    \A prefix \in Prefixes :
        match_prefix_string(prefix, key_string(k)) <=> prefix = prefix_of(db[k])

ReadsBack(k) ==
    /\ from_slice(prefix_of(db[k]), to_vec(db[k])) = db[k]
    /\ read_from_db(prefix_of(db[k]), k, TRUE) = [ok |-> TRUE, value |-> db[k], gets |-> 1]
    /\ \A prefix \in Prefixes \ {prefix_of(db[k])}, rpc_ok \in BOOLEAN :
          ~read_from_db(prefix, k, rpc_ok).ok

GetEndpoints == {"get_input_file", "get_output_file", "get_function", "get_task"}

EntitiesReadBack == \A k \in StoredKeys : KeyOfItsKind(k) /\ ReadsBack(k)

====
